---- MODULE Spec2Model ----
(***************************************************************************)
(* Model of warehouseoptimization.py: DataValidator and the               *)
(* WarehouseOptimizer pipeline (load_data, run_abc_analysis,              *)
(* calculate_all_metrics, save_results_to_file) driven by run().          *)
(*                                                                         *)
(* JSON values are tagged records [t |-> type, v |-> payload].  A list of  *)
(* products keeps the dict objects json.load created; the bucket lists and *)
(* the sorted lists of the program hold references to those same objects,  *)
(* modelled as positions (1-based) in self.products.                       *)
(* Numbers are integers; a Python float that is a ratio is kept as an      *)
(* exact fraction [num, den].  The inputs enumerated in Init are ones on   *)
(* which IEEE double arithmetic gives the same comparisons and ceilings.   *)
(***************************************************************************)
EXTENDS Integers, Sequences, FiniteSets, TLC

VARIABLES fileState, data, outfile, products, categories, metrics,
          report_data, stdout, stages, pc, raised

vars == <<fileState, data, outfile, products, categories, metrics,
          report_data, stdout, stages, pc, raised>>

----------------------------------------------------------------------------
(* Bounds of the model *)

MaxLen == 3
MaxInvLen == 2
MaxDefectLen == 2

----------------------------------------------------------------------------
(* Configuration constants (lines 14-32).  Decimal literals are scaled. *)

WALKING_SPEED_MPS_X10 == 12
LABOR_COST_PER_HOUR_X100 == 2250
A_CATEGORY_PERCENTAGE == 80
B_CATEGORY_PERCENTAGE == 95
ZONE_A_DISTANCE_M == 5
ZONE_B_DISTANCE_M == 15
ZONE_C_DISTANCE_M == 30
ANNUAL_HOLDING_COST_PERCENTAGE == 15
COST_PER_ORDER == 50
DEMAND_VARIABILITY_FACTOR_X10 == 2
SERVICE_LEVEL_Z_SCORE_X1000 == 1645
LEAD_TIME_DAYS == 7
SQRT_LEAD_TIME_X1000 == 2646
DAYS_PER_YEAR == 365

----------------------------------------------------------------------------
(* JSON values *)

Num(n) == [t |-> "num", v |-> n]
Str(s) == [t |-> "str", v |-> s]
Dict(f) == [t |-> "dict", v |-> f]
List(s) == [t |-> "list", v |-> s]

EmptyDict == [k \in {} |-> 0]

Get(d, key, default) == IF key \in DOMAIN d THEN d[key] ELSE default

Frac(n, d) == [num |-> n, den |-> d]

----------------------------------------------------------------------------
(* DataValidator *)

required_keys == <<"sku", "product_name", "frequency", "category",
                   "dimensions_cm", "weight_kg", "unit_cost">>

DimensionKeys == {"length", "width", "height"}

\* isinstance(x, (int, float)) and x >= 0
IsNonNegativeNumber(x) == x.t = "num" /\ x.v >= 0

\* the text product.get('sku', 'N/A') is formatted to
SkuText(product) ==
    LET s == Get(product, "sku", Str("N/A"))
    IN IF s.t = "str" THEN s.v ELSE "<non-string>"

InvalidFieldError(field, product, index) ==
    [kind |-> "invalid_field", field |-> field,
     sku |-> SkuText(product), index |-> index]

_validate_numerical_fields(product, index) ==
    LET frequency == Get(product, "frequency", Num(-1))
        unit_cost == Get(product, "unit_cost", Num(-1))
        weight == Get(product, "weight_kg", Num(-1))
        dims == Get(product, "dimensions_cm", Dict(EmptyDict))
    IN  (IF ~IsNonNegativeNumber(frequency)
           THEN <<InvalidFieldError("frequency", product, index)>> ELSE <<>>)
        \o (IF ~IsNonNegativeNumber(unit_cost)
           THEN <<InvalidFieldError("unit_cost", product, index)>> ELSE <<>>)
        \o (IF ~IsNonNegativeNumber(weight)
           THEN <<InvalidFieldError("weight_kg", product, index)>> ELSE <<>>)
        \o (IF ~(dims.t = "dict" /\ \A k \in DimensionKeys : k \in DOMAIN dims.v)
           THEN <<InvalidFieldError("dimensions_cm", product, index)>> ELSE <<>>)

RECURSIVE MissingKeyErrors(_, _, _)
MissingKeyErrors(product, index, k) ==
    IF k > Len(required_keys) THEN <<>>
    ELSE (IF required_keys[k] \notin DOMAIN product
            THEN <<[kind |-> "missing_key", key |-> required_keys[k],
                    index |-> index]>>
            ELSE <<>>)
         \o MissingKeyErrors(product, index, k + 1)

\* errors one record contributes; index is the 0-based enumerate() index
ProductErrors(product, index) ==
    IF product.t # "dict"
      THEN <<[kind |-> "not_dict", index |-> index]>>
      ELSE MissingKeyErrors(product.v, index, 1)
           \o _validate_numerical_fields(product.v, index)

RECURSIVE CheckFromOne(_, _)
\* CheckFrom reporting 1-based positions, as enumerate(self.data, 1) would
CheckFromOne(items, i) ==
    IF i > Len(items) THEN <<>>
    ELSE ProductErrors(items[i], i) \o CheckFromOne(items, i + 1)

RECURSIVE CheckFrom(_, _)
CheckFrom(items, i) ==
    IF i > Len(items) THEN <<>>
    ELSE ProductErrors(items[i], i - 1) \o CheckFrom(items, i + 1)

_check_product_fields(d) == CheckFrom(d.v, 1)

_check_overall_format(d) ==
    IF d.t # "list" THEN <<[kind |-> "invalid_format"]>> ELSE <<>>

\* validate_all rejecting an empty list
validate_allNonEmpty(d) ==
    LET errors == _check_overall_format(d)
    IN IF errors = <<>>
         THEN (IF d.v = <<>> THEN <<[kind |-> "empty_list"]>>
                             ELSE _check_product_fields(d))
         ELSE errors

validate_all(d) ==
    LET errors == _check_overall_format(d)
    IN IF errors = <<>> THEN _check_product_fields(d) ELSE errors

----------------------------------------------------------------------------
(* Helpers over validated products (dict objects held in self.products) *)

\* p['frequency'], p['unit_cost'], p['sku'] of a validated product
Frequency(p) == p.v["frequency"].v
UnitCost(p) == p.v["unit_cost"].v
Sku(p) == p.v["sku"].v

RECURSIVE SumFrequency(_, _, _, _)
\* sum(p['frequency'] * w for p in refs[k..]) for a sequence of references
SumFrequency(prods, refs, k, w) ==
    IF k > Len(refs) THEN 0
    ELSE Frequency(prods[refs[k]]) * w + SumFrequency(prods, refs, k + 1, w)

\* ceil(n / d) for n >= 0, d > 0
CeilDiv(n, d) == (n + d - 1) \div d

RECURSIVE SqrtUpper(_, _, _)
\* least power of two h with h*h*q >= p
SqrtUpper(p, q, h) == IF h * h * q >= p THEN h ELSE SqrtUpper(p, q, 2 * h)

RECURSIVE SqrtBisect(_, _, _, _)
\* least n in lo..hi with n*n*q >= p, given hi*hi*q >= p
SqrtBisect(p, q, lo, hi) ==
    IF lo >= hi THEN hi
    ELSE LET mid == (lo + hi) \div 2
         IN IF mid * mid * q >= p THEN SqrtBisect(p, q, lo, mid)
                                  ELSE SqrtBisect(p, q, mid + 1, hi)

\* math.ceil(math.sqrt(p / q)) for p >= 0, q > 0
CeilSqrt(p, q) == IF p = 0 THEN 0 ELSE SqrtBisect(p, q, 1, SqrtUpper(p, q, 1))

----------------------------------------------------------------------------
(* run_abc_analysis *)

\* sum(p['frequency'] for p in self.products)
total_frequency(prods) ==
    SumFrequency(prods, [i \in 1..Len(prods) |-> i], 1, 1)

RECURSIVE InsertByFrequency(_, _, _, _)
\* position-k insertion of reference i behind every element whose key is
\* not smaller (stable, descending)
InsertByFrequency(prods, s, i, k) ==
    IF k > Len(s) \/ Frequency(prods[s[k]]) < Frequency(prods[i])
      THEN SubSeq(s, 1, k - 1) \o <<i>> \o SubSeq(s, k, Len(s))
      ELSE InsertByFrequency(prods, s, i, k + 1)

RECURSIVE SortedByFrequency(_, _)
\* sorted(self.products, key=lambda p: p['frequency'], reverse=True),
\* as references to the first n products
SortedByFrequency(prods, n) ==
    IF n = 0 THEN <<>>
    ELSE InsertByFrequency(prods, SortedByFrequency(prods, n - 1), n, 1)

sorted_products(prods) == SortedByFrequency(prods, Len(prods))

\* BucketOf with '<' in place of '<=' at both thresholds
BucketOfStrict(cur, total) ==
    IF cur * 100 < A_CATEGORY_PERCENTAGE * total THEN "categoryA"
    ELSE IF cur * 100 < B_CATEGORY_PERCENTAGE * total THEN "categoryB"
    ELSE "categoryC"

\* the branch taken at lines 162-167 for cumulative share cur / total
BucketOf(cur, total) ==
    IF cur * 100 <= A_CATEGORY_PERCENTAGE * total THEN "categoryA"
    ELSE IF cur * 100 <= B_CATEGORY_PERCENTAGE * total THEN "categoryB"
    ELSE "categoryC"

RECURSIVE ClassifyLoopTwoIfs(_, _, _, _, _, _)
\* ClassifyLoop with the 'elif' of line 164 written as a second 'if'
ClassifyLoopTwoIfs(prods, sorted, k, cur, total, cats) ==
    IF k > Len(sorted) THEN cats
    ELSE LET p == sorted[k]
             current == cur + Frequency(prods[p])
             inA == current * 100 <= A_CATEGORY_PERCENTAGE * total
             inB == current * 100 <= B_CATEGORY_PERCENTAGE * total
             c1 == IF inA THEN [cats EXCEPT !["categoryA"] = Append(@, p)]
                          ELSE cats
             c2 == IF inB THEN [c1 EXCEPT !["categoryB"] = Append(@, p)]
                          ELSE [c1 EXCEPT !["categoryC"] = Append(@, p)]
         IN ClassifyLoopTwoIfs(prods, sorted, k + 1, current, total, c2)

RECURSIVE ClassifyLoop(_, _, _, _, _, _)
\* the for loop of lines 158-167; cur is current_percentage * total
ClassifyLoop(prods, sorted, k, cur, total, cats) ==
    IF k > Len(sorted) THEN cats
    ELSE LET p == sorted[k]
             current == cur + Frequency(prods[p])
             b == BucketOf(current, total)
         IN ClassifyLoop(prods, sorted, k + 1, current, total,
                         [cats EXCEPT ![b] = Append(@, p)])

CategoryKeys == {"categoryA", "categoryB", "categoryC"}

Classify(prods) ==
    ClassifyLoop(prods, sorted_products(prods), 1, 0, total_frequency(prods),
                 [c \in CategoryKeys |-> <<>>])

----------------------------------------------------------------------------
(* calculate_all_metrics *)

RECURSIVE OriginalDistance(_, _)
\* sum((i + 1) * 2 * p['frequency'] for i, p in enumerate(self.products))
OriginalDistance(prods, k) ==
    IF k > Len(prods) THEN 0
    ELSE k * 2 * Frequency(prods[k]) + OriginalDistance(prods, k + 1)

ZoneDistance(prods, bucket, dist) == SumFrequency(prods, bucket, 1, dist)

\* the dict passed to self.metrics.update at lines 192-197
DistanceMetrics(prods, cats) ==
    LET original_distance == OriginalDistance(prods, 1)
        optimized_distance ==
            ZoneDistance(prods, cats["categoryA"], ZONE_A_DISTANCE_M)
            + ZoneDistance(prods, cats["categoryB"], ZONE_B_DISTANCE_M)
            + ZoneDistance(prods, cats["categoryC"], ZONE_C_DISTANCE_M)
        distance_saved == original_distance - optimized_distance
    IN [original_distance |-> original_distance,
        optimized_distance |-> optimized_distance,
        distance_saved |-> distance_saved,
        efficiency_improvement |->
            IF original_distance > 0
              THEN Frac(distance_saved * 100, original_distance)
              ELSE Frac(0, 1)]

\* distance / (WALKING_SPEED_MPS * 3600)
TimeHours(distance) == Frac(distance * 10, WALKING_SPEED_MPS_X10 * 3600)

\* hours * LABOR_COST_PER_HOUR
LaborCost(hours) == Frac(hours.num * LABOR_COST_PER_HOUR_X100, hours.den * 100)

\* the dict passed to self.metrics.update at lines 212-219
FinancialMetrics(m) ==
    LET original_time_hours == TimeHours(m.original_distance)
        optimized_time_hours == TimeHours(m.optimized_distance)
        original_cost == LaborCost(original_time_hours)
        optimized_cost == LaborCost(optimized_time_hours)
    IN [original_time_hours |-> original_time_hours,
        optimized_time_hours |-> optimized_time_hours,
        original_cost |-> original_cost,
        optimized_cost |-> optimized_cost,
        cost_saved |-> Frac(original_cost.num - optimized_cost.num,
                            original_cost.den),
        time_saved_hours |-> Frac(original_time_hours.num
                                  - optimized_time_hours.num,
                                  original_time_hours.den)]

RECURSIVE FloorSqrtFrom(_, _, _)
FloorSqrtFrom(p, q, n) ==
    IF (n + 1) * (n + 1) * q > p THEN n ELSE FloorSqrtFrom(p, q, n + 1)

\* Eoq with int(eoq) in place of math.ceil(eoq)
EoqTruncated(D, unit_cost) ==
    LET S == COST_PER_ORDER
        H100 == unit_cost * ANNUAL_HOLDING_COST_PERCENTAGE
    IN IF H100 > 0 THEN FloorSqrtFrom(2 * D * S * 100, H100, 0) ELSE 0

\* lines 228-235 and 245: math.ceil(eoq)
Eoq(D, unit_cost) ==
    LET S == COST_PER_ORDER
        H100 == unit_cost * ANNUAL_HOLDING_COST_PERCENTAGE
    IN IF H100 > 0 THEN CeilSqrt(2 * D * S * 100, H100) ELSE 0

\* lines 239-242 and 246: math.ceil(safety_stock); z * 0.2 = zv100 / 1000
SafetyStock(D) ==
    LET zv100 == (SERVICE_LEVEL_Z_SCORE_X1000 * DEMAND_VARIABILITY_FACTOR_X10)
                     \div 10
    IN CeilDiv(D * zv100 * SQRT_LEAD_TIME_X1000,
               DAYS_PER_YEAR * 1000 * 1000)

RECURSIVE InventoryLoop(_, _, _)
\* the for loop of lines 226-247; a later product overwrites the entry of
\* an earlier one with the same sku
InventoryLoop(prods, k, inv) ==
    IF k > Len(prods) THEN inv
    ELSE LET p == prods[k]
             entry == [eoq |-> Eoq(Frequency(p), UnitCost(p)),
                       safety_stock |-> SafetyStock(Frequency(p))]
         IN InventoryLoop(prods, k + 1,
                [s \in DOMAIN inv \cup {Sku(p)} |->
                    IF s = Sku(p) THEN entry ELSE inv[s]])

_calculate_inventory_metrics(prods) == InventoryLoop(prods, 1, EmptyDict)

----------------------------------------------------------------------------
(* _create_results_data_for_json and save_results_to_file *)

\* the order Python gives the sku strings used here
SkuOrder == <<"s1", "s2">>

SkuRank(s) == CHOOSE r \in 1..Len(SkuOrder) : SkuOrder[r] = s

RECURSIVE InsertBySku(_, _, _, _)
InsertBySku(prods, s, i, k) ==
    IF k > Len(s) \/ SkuRank(Sku(prods[s[k]])) > SkuRank(Sku(prods[i]))
      THEN SubSeq(s, 1, k - 1) \o <<i>> \o SubSeq(s, k, Len(s))
      ELSE InsertBySku(prods, s, i, k + 1)

RECURSIVE SortedBySku(_, _)
\* sorted(self.products, key=lambda p: p['sku']), as references
SortedBySku(prods, n) ==
    IF n = 0 THEN <<>>
    ELSE InsertBySku(prods, SortedBySku(prods, n - 1), n, 1)

\* the product objects a list of references serialises to
Deref(prods, refs) == [k \in 1..Len(refs) |-> prods[refs[k]]]

_create_results_data_for_json(prods, cats, m, rd) ==
    LET a == Deref(prods, Get(cats, "categoryA", <<>>))
        b == Deref(prods, Get(cats, "categoryB", <<>>))
        c == Deref(prods, Get(cats, "categoryC", <<>>))
    IN [metrics |-> m,
        abc_analysis |-> [categoryA |-> a, categoryB |-> b, categoryC |-> c],
        inventory_metrics |-> rd["inventory_metrics"],
        layouts |-> [original |-> Deref(prods, SortedBySku(prods, Len(prods))),
                     optimized |-> [A |-> a, B |-> b, C |-> c]]]

\* top-level keys in the order json.dump writes them
ReportKeys == <<"metrics", "abc_analysis", "inventory_metrics", "layouts">>

\* the text json.dump produces, as the pieces it writes one after another
Serialize(results) ==
    [k \in 1..Len(ReportKeys) |-> <<ReportKeys[k], results[ReportKeys[k]]>>]

Absent == [exists |-> FALSE, content |-> <<>>]
OldFile == [exists |-> TRUE, content |-> <<<<"previous", 0>>>>]

\* what is at filepath after open(filepath, 'w') succeeded and n pieces
\* were written
Written(text, n) == [exists |-> TRUE, content |-> SubSeq(text, 1, n)]

----------------------------------------------------------------------------
(* Inputs *)

Skus == {"s1", "s2"}
FreqVals == {0, 10, 40, 50, 100, 190}
InvFreqVals == {0, 50, 150, 500}
CostVals == {0, 3, 10}

ValidDims == Dict([d \in DimensionKeys |-> Num(1)])

MkProduct(sku, freq, cost) ==
    Dict([k \in {required_keys[i] : i \in 1..Len(required_keys)} |->
            CASE k = "sku" -> Str(sku)
              [] k = "product_name" -> Str("name")
              [] k = "frequency" -> Num(freq)
              [] k = "category" -> Str("cat")
              [] k = "dimensions_cm" -> ValidDims
              [] k = "weight_kg" -> Num(1)
              [] k = "unit_cost" -> Num(cost)])

Without(p, key) == Dict([k \in DOMAIN p.v \ {key} |-> p.v[k]])
With(p, key, val) ==
    Dict([k \in DOMAIN p.v \cup {key} |-> IF k = key THEN val ELSE p.v[k]])

ABCProducts == {MkProduct(s, f, 10) : s \in Skus, f \in FreqVals}
InvProducts == {MkProduct(s, f, c) : s \in Skus, f \in InvFreqVals, c \in CostVals}

Good == MkProduct("s1", 10, 10)

DefectProducts ==
    { Good,
      Num(7),
      Str("text"),
      Without(Good, "sku"),
      Without(Good, "product_name"),
      Without(Good, "frequency"),
      Without(Good, "dimensions_cm"),
      Without(Without(Good, "sku"), "unit_cost"),
      With(Good, "frequency", Num(-5)),
      With(Good, "unit_cost", Str("free")),
      With(Good, "weight_kg", Num(-1)),
      With(Good, "dimensions_cm", Dict([d \in {"length", "width"} |-> Num(1)])),
      With(Good, "dimensions_cm", Num(3)) }

SeqsUpTo(S, n) == UNION {[1..k -> S] : k \in 0..n}

InputLists ==
    SeqsUpTo(ABCProducts, MaxLen) \cup SeqsUpTo(InvProducts, MaxInvLen)
      \cup SeqsUpTo(DefectProducts, MaxDefectLen)

NoData == [t |-> "none", v |-> 0]

Inputs ==
    {[file |-> "ok", data |-> List(s)] : s \in InputLists}
      \cup {[file |-> "ok", data |-> Dict(EmptyDict)],
            [file |-> "ok", data |-> Num(5)],
            [file |-> "missing", data |-> NoData],
            [file |-> "unreadable", data |-> NoData],
            [file |-> "invalid_json", data |-> NoData]}

----------------------------------------------------------------------------
(* State machine of run() *)

Say(m) == [msg |-> m]

RECURSIVE PrintErrors(_, _)
\* for error in errors: print(f"  - {error}")
PrintErrors(errors, k) ==
    IF k > Len(errors) THEN <<>>
    ELSE <<[msg |-> "error", error |-> errors[k]]>>
         \o PrintErrors(errors, k + 1)

Stage(s, ok) == [stage |-> s, ok |-> ok]

\* dict.update
Update(d, u) ==
    [k \in DOMAIN d \cup DOMAIN u |-> IF k \in DOMAIN u THEN u[k] ELSE d[k]]

Init ==
    /\ \E input \in Inputs : fileState = input.file /\ data = input.data
    /\ outfile \in {Absent, OldFile}
    /\ products = <<>>
    /\ categories = EmptyDict
    /\ metrics = EmptyDict
    /\ report_data = EmptyDict
    /\ stdout = <<>>
    /\ stages = <<>>
    /\ pc = "load_data"
    /\ raised = "none"

\* line 317: self.load_data()
LoadData ==
    /\ pc = "load_data"
    /\ \/ /\ fileState = "missing"
          /\ stdout' = stdout \o <<Say("initializing"), Say("file_not_found")>>
          /\ products' = <<>>
          /\ stages' = stages \o <<Stage("Loading", FALSE)>>
          /\ pc' = "check_products"
          /\ UNCHANGED raised
       \/ /\ fileState = "unreadable"
          /\ stdout' = stdout \o <<Say("initializing")>>
          /\ stages' = stages \o <<Stage("Loading", FALSE)>>
          /\ pc' = "raised"
          /\ raised' = "PermissionError"
          /\ UNCHANGED products
       \/ /\ fileState = "invalid_json"
          /\ stdout' = stdout \o <<Say("initializing"), Say("invalid_json")>>
          /\ products' = <<>>
          /\ stages' = stages \o <<Stage("Loading", FALSE)>>
          /\ pc' = "check_products"
          /\ UNCHANGED raised
       \/ /\ fileState = "ok"
          /\ LET errors == validate_all(data)
             IN IF errors # <<>>
                  THEN /\ stdout' = stdout
                            \o <<Say("initializing"), Say("validation_failed")>>
                            \o PrintErrors(errors, 1)
                       /\ products' = <<>>
                       /\ stages' = stages \o <<Stage("Loading", TRUE),
                                                Stage("Validating", FALSE)>>
                  ELSE /\ stdout' = stdout
                            \o <<Say("initializing"), Say("validated")>>
                       /\ products' = data.v
                       /\ stages' = stages \o <<Stage("Loading", TRUE),
                                                Stage("Validating", TRUE)>>
          /\ pc' = "check_products"
          /\ UNCHANGED raised
    /\ UNCHANGED <<fileState, data, outfile, categories, metrics, report_data>>

\* lines 318-321: if not self.products: return
CheckProducts ==
    /\ pc = "check_products"
    /\ IF products = <<>>
         THEN pc' = "returned" /\ UNCHANGED stdout
         ELSE pc' = "run_abc_analysis"
              /\ stdout' = Append(stdout, Say("starting_analysis"))
    /\ UNCHANGED <<fileState, data, outfile, products, categories, metrics,
                   report_data, stages, raised>>

\* line 322: self.run_abc_analysis()
RunAbcAnalysis ==
    /\ pc = "run_abc_analysis"
    /\ IF products = <<>>
         THEN UNCHANGED <<categories, stdout, stages>>
         ELSE IF total_frequency(products) = 0
           THEN /\ stdout' = Append(stdout, Say("zero_total_frequency"))
                /\ stages' = Append(stages, Stage("Classifying", FALSE))
                /\ UNCHANGED categories
           ELSE /\ categories' = Classify(products)
                /\ stages' = Append(stages, Stage("Classifying", TRUE))
                /\ UNCHANGED stdout
    /\ pc' = "calculate_all_metrics"
    /\ UNCHANGED <<fileState, data, outfile, products, metrics, report_data,
                   raised>>

\* line 323: self.calculate_all_metrics()
CalculateAllMetrics ==
    /\ pc = "calculate_all_metrics"
    /\ IF products = <<>>
         THEN /\ pc' = "save_results_to_file"
              /\ UNCHANGED <<metrics, report_data, stages, raised>>
         ELSE IF "categoryA" \notin DOMAIN categories
           THEN \* self.categories['categoryA'] at line 183
                /\ pc' = "raised"
                /\ raised' = "KeyError"
                /\ stages' = Append(stages, Stage("ComputingMetrics", FALSE))
                /\ UNCHANGED <<metrics, report_data>>
           ELSE /\ LET m == Update(metrics, DistanceMetrics(products, categories))
                   IN metrics' = Update(m, FinancialMetrics(m))
                /\ report_data' = Update(report_data,
                       [inventory_metrics |->
                           _calculate_inventory_metrics(products)])
                /\ stages' = Append(stages, Stage("ComputingMetrics", TRUE))
                /\ pc' = "save_results_to_file"
                /\ UNCHANGED raised
    /\ UNCHANGED <<fileState, data, outfile, products, categories, stdout>>

\* line 325: self.save_results_to_file()
SaveResultsToFile ==
    /\ pc = "save_results_to_file"
    /\ IF "inventory_metrics" \notin DOMAIN report_data
         THEN \* self.report_data['inventory_metrics'] at line 291
              /\ pc' = "raised"
              /\ raised' = "KeyError"
              /\ stages' = Append(stages, Stage("Assembling", FALSE))
              /\ UNCHANGED <<outfile, stdout>>
         ELSE LET text == Serialize(_create_results_data_for_json(
                              products, categories, metrics, report_data))
              IN /\ \/ \* open(filepath, 'w') raises IOError
                       /\ UNCHANGED outfile
                       /\ stdout' = Append(stdout, Say("error_saving_file"))
                       /\ stages' = stages \o <<Stage("Assembling", TRUE),
                                                Stage("Persisted", FALSE)>>
                    \/ \* a write (or the final flush) raises IOError
                       /\ \E n \in 0..(Len(text) - 1) :
                              outfile' = Written(text, n)
                       /\ stdout' = Append(stdout, Say("error_saving_file"))
                       /\ stages' = stages \o <<Stage("Assembling", TRUE),
                                                Stage("Persisted", FALSE)>>
                    \/ /\ outfile' = Written(text, Len(text))
                       /\ stdout' = Append(stdout, Say("results_saved"))
                       /\ stages' = stages \o <<Stage("Assembling", TRUE),
                                                Stage("Persisted", TRUE)>>
                 /\ pc' = "returned"
                 /\ UNCHANGED raised
    /\ UNCHANGED <<fileState, data, products, categories, metrics, report_data>>

Next ==
    \/ LoadData
    \/ CheckProducts
    \/ RunAbcAnalysis
    \/ CalculateAllMetrics
    \/ SaveResultsToFile

Spec == Init /\ [][Next]_vars

----------------------------------------------------------------------------
(* Properties *)

Range(s) == {s[k] : k \in 1..Len(s)}

AfterClassification ==
    pc \in {"calculate_all_metrics", "save_results_to_file", "returned", "raised"}

AfterMetrics == pc \in {"save_results_to_file", "returned", "raised"}

Finished == pc \in {"returned", "raised"}

\* nothing at the output path was written by this run
NothingWritten == outfile \in {Absent, OldFile}

Buckets == categories["categoryA"] \o categories["categoryB"]
             \o categories["categoryC"]

\* C1: for a validated non-empty product list with positive total
\* frequency, after run_abc_analysis the three buckets are pairwise
\* disjoint, every input record is in the buckets exactly once, and the
\* SKUs found in the buckets are exactly the SKUs of the input.
C1_BucketsPartitionInput ==
    (AfterClassification /\ products # <<>> /\ total_frequency(products) > 0)
    => /\ DOMAIN categories = CategoryKeys
       /\ Range(categories["categoryA"]) \cap Range(categories["categoryB"]) = {}
       /\ Range(categories["categoryA"]) \cap Range(categories["categoryC"]) = {}
       /\ Range(categories["categoryB"]) \cap Range(categories["categoryC"]) = {}
       /\ \A i \in 1..Len(products) :
              Cardinality({k \in 1..Len(Buckets) : Buckets[k] = i}) = 1
       /\ Range(Buckets) = 1..Len(products)
       /\ {Sku(products[i]) : i \in Range(Buckets)}
            = {Sku(products[i]) : i \in 1..Len(products)}

\* three records, two of them with the same sku, spread over all buckets
C1_Witness ==
    /\ pc = "calculate_all_metrics"
    /\ Len(products) = 3
    /\ Sku(products[1]) = Sku(products[3])
    /\ Sku(products[1]) # Sku(products[2])
    /\ DOMAIN categories = CategoryKeys
    /\ \A c \in CategoryKeys : categories[c] # <<>>

\* cumulative frequency of the first k records of the walk
PrefixFrequency(refs, k) == SumFrequency(products, SubSeq(refs, 1, k), 1, 1)

ReportText ==
    Serialize(_create_results_data_for_json(products, categories, metrics,
                                            report_data))

LastStage == stages[Len(stages)]

Printed(m) == \E k \in 1..Len(stdout) : stdout[k].msg = m

\* C2: with a non-empty validated list of total frequency zero, run() ends
\* normally after the zero-total-frequency diagnostic, classification is the
\* last stage that executed, and no output file is written.
C2_ZeroTotalAborts ==
    (Finished /\ products # <<>> /\ total_frequency(products) = 0)
    => /\ pc = "returned"
       /\ raised = "none"
       /\ Printed("zero_total_frequency")
       /\ LastStage = Stage("Classifying", FALSE)
       /\ NothingWritten

\* C3: no exception propagates out of run(): every failure is reported as
\* a diagnostic and run() returns normally.
C3_NoExceptionPropagates ==
    /\ raised = "none"
    /\ pc # "raised"
    /\ (Finished /\ stages # <<>> /\ ~LastStage.ok)
         => \/ Printed("file_not_found") \/ Printed("invalid_json")
            \/ Printed("validation_failed") \/ Printed("zero_total_frequency")
            \/ Printed("error_saving_file")

StageOrder == <<"Loading", "Validating", "Classifying", "ComputingMetrics",
                "Assembling", "Persisted">>

ErrorsPrinted ==
    LET idx == {k \in 1..Len(stdout) : stdout[k].msg = "error"}
    IN [j \in 1..Cardinality(idx) |->
          stdout[CHOOSE k \in idx :
                   Cardinality({m \in idx : m < k}) = j - 1].error]

\* C5: the stages run in the order Loading, Validating, Classifying,
\* ComputingMetrics, Assembling, Persisted, each only after the previous one
\* succeeded; the file is written only when all five earlier stages
\* succeeded; a run with validation errors reports all of them and never
\* classifies, computes metrics or writes a file.
C5_StagesInOrder ==
    /\ Len(stages) <= Len(StageOrder)
    /\ \A k \in 1..Len(stages) :
          /\ stages[k].stage = StageOrder[k]
          /\ k > 1 => stages[k - 1].ok
    /\ ~NothingWritten
         => (Len(stages) = 6 /\ \A k \in 1..5 : stages[k].ok)
    /\ (fileState = "ok" /\ pc # "load_data" /\ validate_all(data) # <<>>)
         => /\ ErrorsPrinted = validate_all(data)
            /\ Len(stages) = 2
            /\ categories = EmptyDict /\ metrics = EmptyDict
            /\ NothingWritten

\* C6: when writing the report fails, the output path holds either the
\* complete report or nothing written by this run.
C6_NoPartialOutput ==
    (pc = "returned" /\ stages # <<>> /\ LastStage = Stage("Persisted", FALSE))
    => /\ Printed("error_saving_file")
       /\ \/ NothingWritten
          \/ outfile = Written(ReportText, Len(ReportText))

\* the errors validate_all reported about records
RecordErrors ==
    {e \in Range(ErrorsPrinted) : e.kind # "invalid_format"}

\* the record an error with 0-based index i is about
RecordAt(i) == data.v[i + 1]

\* C7 as stated: every per-record error carries the record's SKU (or the
\* sentinel 'N/A') and the record's positional index.
C7_EveryErrorHasSkuAndIndex ==
    (fileState = "ok" /\ data.t = "list" /\ pc # "load_data")
    => \A e \in RecordErrors :
          /\ "index" \in DOMAIN e
          /\ "sku" \in DOMAIN e

\* the record lacks the field or holds a value the validator rejects:
\* a number field that is not a number >= 0, a dimensions_cm that is not a
\* dict with length, width and height
FieldInvalid(record, field) ==
    /\ field \in {"frequency", "unit_cost", "weight_kg", "dimensions_cm"}
    /\ \/ field \notin DOMAIN record
       \/ IF field = "dimensions_cm"
            THEN \/ record[field].t # "dict"
                 \/ ~(DimensionKeys \subseteq DOMAIN record[field].v)
            ELSE \/ record[field].t # "num"
                 \/ record[field].v < 0

\* C7 (amended): every per-record error carries the positional index of a
\* record that has the reported defect; the errors about frequency,
\* unit_cost, weight_kg and dimensions_cm also carry that record's SKU
\* ('N/A' when it has none); the missing-key and not-a-dictionary errors
\* carry the index only.
C7_ErrorsIdentifyRecord ==
    (fileState = "ok" /\ data.t = "list" /\ pc # "load_data")
    => \A e \in RecordErrors :
          /\ "index" \in DOMAIN e
          /\ e.index + 1 \in 1..Len(data.v)
          /\ e.kind = "not_dict"
               => (RecordAt(e.index).t # "dict" /\ "sku" \notin DOMAIN e)
          /\ e.kind = "missing_key"
               => /\ RecordAt(e.index).t = "dict"
                  /\ e.key \notin DOMAIN RecordAt(e.index).v
                  /\ "sku" \notin DOMAIN e
          /\ e.kind = "invalid_field"
               => /\ RecordAt(e.index).t = "dict"
                  /\ FieldInvalid(RecordAt(e.index).v, e.field)
                  /\ e.sku = (IF "sku" \in DOMAIN RecordAt(e.index).v
                                THEN RecordAt(e.index).v["sku"].v ELSE "N/A")

\* a record without sku and unit_cost, at index 1 behind a good record, was
\* reported: missing-key errors and an invalid unit_cost error for 'N/A'
C7_Witness ==
    /\ fileState = "ok" /\ data.t = "list" /\ pc = "check_products"
    /\ \E e \in RecordErrors :
          e.kind = "missing_key" /\ e.key = "sku" /\ e.index = 1
    /\ \E e \in RecordErrors :
          e.kind = "invalid_field" /\ e.sku = "N/A" /\ e.index = 1
    /\ \E e \in RecordErrors : e.kind = "not_dict" /\ e.index = 0

\* the product whose entry inventory_metrics keeps under sku s
LastWithSku(s) ==
    products[CHOOSE i \in 1..Len(products) :
               /\ Sku(products[i]) = s
               /\ \A j \in (i + 1)..Len(products) : Sku(products[j]) # s]

\* n is the ceiling of the real number x with x * x = p / q (p >= 0, q > 0)
IsCeilOfSqrt(n, p, q) ==
    /\ n \in Nat
    /\ n * n * q >= p
    /\ n > 0 => (n - 1) * (n - 1) * q < p

\* n is the ceiling of p / q (p >= 0, q > 0)
IsCeilOf(n, p, q) ==
    /\ n \in Nat
    /\ n * q >= p
    /\ n > 0 => (n - 1) * q < p

C9_EfficiencyZeroWhenNoFrequency ==
    (AfterMetrics /\ products # <<>>
       /\ \A i \in 1..Len(products) : Frequency(products[i]) = 0)
    => /\ raised = "none"
       /\ "efficiency_improvement" \in DOMAIN metrics
       /\ metrics["efficiency_improvement"].num = 0

\* C10: when the input decodes to an empty list, validation reports no
\* error, and run() stops right after loading: nothing is classified,
\* computed or written, and no failure diagnostic is printed.
C10_EmptyListStopsSilently ==
    (fileState = "ok" /\ data = List(<<>>))
    => /\ pc \in {"load_data", "check_products", "returned"}
       /\ raised = "none"
       /\ pc # "load_data"
            => /\ stdout = <<Say("initializing"), Say("validated")>>
               /\ stages = <<Stage("Loading", TRUE), Stage("Validating", TRUE)>>
       /\ products = <<>>
       /\ categories = EmptyDict /\ metrics = EmptyDict
       /\ report_data = EmptyDict
       /\ NothingWritten

\* the run on an empty list has ended: neither Persisted nor a failure
C10_Witness ==
    /\ fileState = "ok" /\ data = List(<<>>)
    /\ pc = "returned"
    /\ \A k \in 1..Len(stages) : stages[k].ok
    /\ ~Printed("results_saved")
    /\ NothingWritten

====
